---- MODULE Spec2Model ----
(***************************************************************************)
(* Model of sbsr/compute.py: the reproducibility test of libSBSR.          *)
(*                                                                         *)
(* Spec       the convergence controller of test_reproducibility with its  *)
(*            two transports (test_sampling_shared, test_sampling_no_      *)
(*            shared), the job partition, the worker tasks of one          *)
(*            pool.starmap and the shared-memory segments. Worker results  *)
(*            are arbitrary error values; pool creation, a worker task and *)
(*            a segment release may fail.                                  *)
(* WorkerSpec the controller's fill of the input segments, then one task   *)
(*            of _test_sampling_shared and one task of                     *)
(*            _test_sampling_no_shared on the same trajectories, the copy  *)
(*            task replaying the shuffles the shared task drew.            *)
(* ShapeSpec  the controller of Spec called with trajectory sets whose     *)
(*            variables may have different shapes.                         *)
(* PvalSpec   one call of pval.                                            *)
(*                                                                         *)
(* Floats are modelled by exact fractions <<n, d>> with d >= 0; d = 0      *)
(* stands for the IEEE results of a division by zero (n > 0: inf, n = 0:   *)
(* nan), which numpy's float64 division returns instead of raising.        *)
(***************************************************************************)
EXTENDS Integers, Sequences, FiniteSets, TLC

\* ------------------------------------------------------------------ bounds
MaxIncr == 3
MaxWorkers == 2
MaxCap == 3
NumVars == 2
MaxReal == 3
MaxRep == 2
NumTimes == 1
MaxDist == 3
MaxSampleSize == 3
\* No capped run needs more dispatches than max(2, max_sampling); an uncapped
\* run that has not converged is cut here.
MaxBatches == MaxCap

\* err_thresh values (fractions n/d).
ThreshSet == {<<1, 2>>, <<1, 10>>}
\* Error values a replicate can return (ecf_compare is a max of square roots).
ErrVals == {0, 1}

\* max_sampling: << >> is None, <<k>> is the integer k.
None == << >>
CapSet == {None} \cup {<<k>> : k \in 1..MaxCap}

\* Shared segments: one input segment per variable, and the output segment.
InSegs == 1..NumVars
OutSeg == NumVars + 1
Segs == InSegs \cup {OutSeg}

VARIABLES
  shared,            \* test_reproducibility's transport flag
  incr_sampling, err_thresh, max_sampling, num_workers_arg,
  var_shapes,        \* _results: per variable, its array's shape <<rows, columns>>
  pc,                \* the controller's position
  exc,               \* what was raised to the caller ("none" while running)
  shm,               \* per segment: how often it was created, closed, unlinked
  free_pos,          \* position in the release sequence of lines 327-331
  num_workers, num_jobs, job_indices,
  task,              \* per worker task of the current starmap
  task_out,          \* shared transport: each task's local out_arr
  shm_from_arr,      \* contents of the output segment
  ret,               \* copy transport: the list each task returned
  ecf_errs, ecf_err_avg_curr, iter_cur, err_curr,
  batches,           \* number of starmap calls issued so far
  \* one worker task of each transport, run on the same data and random stream
  results,           \* _results: per variable, realization x time
  arr_shape0, num_results,
  rng,               \* the shuffles np.random.shuffle has drawn, in order
  shm_to_arr,        \* contents of the input segments
  s_pc, s_i, s_indices, results_copy, out_arr,
  n_pc, n_indices, result,
  s_ids, s_used, n_used, \* which original realizations each replicate arranged
  \* one call of pval
  err_dist, err_compare, sample_size,
  p_pc,              \* the call's position: "idle", "call", "returned", "raised"
  p_ret              \* the value pval returned

params == <<shared, incr_sampling, err_thresh, max_sampling, num_workers_arg, var_shapes>>
sched == <<num_workers, num_jobs, job_indices>>
loopv == <<ecf_errs, ecf_err_avg_curr, iter_cur, err_curr>>
ctl == <<pc, exc, shm, free_pos, sched, task, task_out, loopv, batches>>
winput == <<results, arr_shape0, num_results>>
sworker == <<s_pc, s_i, s_indices, results_copy, out_arr, s_ids, s_used>>
nworker == <<n_pc, n_indices, result, n_used>>
wvars == <<winput, rng, shm_to_arr, sworker, nworker>>
pvars == <<err_dist, err_compare, sample_size, p_pc, p_ret>>
vars == <<params, ctl, shm_from_arr, ret, wvars, pvars>>

\* ----------------------------------------------------------------- helpers
RECURSIVE SumSeq(_)
SumSeq(s) == IF s = << >> THEN 0 ELSE Head(s) + SumSeq(Tail(s))

RECURSIVE Flatten(_)
Flatten(ss) == IF ss = << >> THEN << >> ELSE Head(ss) \o Flatten(Tail(ss))

Abs(x) == IF x < 0 THEN -x ELSE x
Min(a, b) == IF a < b THEN a ELSE b

RECURSIVE Gcd(_, _)
Gcd(a, b) == IF b = 0 THEN a ELSE Gcd(b, a % b)

\* A fraction in lowest terms; inf is <<1, 0>> and nan is <<0, 0>>.
Norm(n, d) ==
  IF d = 0 THEN <<IF n > 0 THEN 1 ELSE 0, 0>>
  ELSE LET g == Gcd(n, d) IN <<n \div g, d \div g>>

IsNan(x) == x = <<0, 0>>
Zero == <<0, 1>>

\* x >= y on floats: every comparison with nan is False.
GE(x, y) ==
  IF x[2] = 0 THEN x[1] > 0 /\ y[2] # 0
  ELSE IF y[2] = 0 THEN FALSE
  ELSE x[1] * y[2] >= y[1] * x[2]

\* x < y on floats.
LT(x, y) ==
  IF x[2] = 0 THEN FALSE
  ELSE IF y[2] = 0 THEN y[1] > 0
  ELSE x[1] * y[2] < y[1] * x[2]

\* np.average of a non-empty list.
AverageOffByOne(s) == Norm(SumSeq(s), Len(s) - 1)

Average(s) == Norm(SumSeq(s), Len(s))

\* ------------------------------------------------------- the job partition
\* Lines 274-276 (398-400): one slot of the round robin.
AssignSlotNoGuard(st, i) ==
  [jobs |-> [st.jobs EXCEPT ![i] = @ + 1], left |-> st.left - 1]

AssignSlot(st, i) ==
  IF st.left > 0
  THEN [jobs |-> [st.jobs EXCEPT ![i] = @ + 1],
        left |-> st.left - 1]
  ELSE st

\* Line 273: for i in range(num_workers).
RECURSIVE ForWorkers(_, _, _)
ForWorkers(st, i, w) ==
  IF i > w THEN st ELSE ForWorkers(AssignSlot(st, i), i + 1, w)

\* Line 272: while jobs_left > 0.
RECURSIVE WhileJobsLeft(_, _)
WhileJobsLeft(st, w) ==
  IF st.left > 0 THEN WhileJobsLeft(ForWorkers(st, 1, w), w) ELSE st

\* Lines 268-278: the per-worker job counts for N replicates and W workers.
Partition(N, W) ==
  LET w == Min(N, W)
      st == WhileJobsLeft([jobs |-> [i \in 1..w |-> 0], left |-> N], w)
  IN SelectSeq(st.jobs, LAMBDA n : n > 0)

\* Line 279: each worker's offset into the output segment (cumsum - own count).
RECURSIVE CumSum(_, _)
CumSum(nj, acc) ==
  IF nj = << >> THEN << >> ELSE <<acc + Head(nj)>> \o CumSum(Tail(nj), acc + Head(nj))

RECURSIVE JobIndicesOf(_, _)
JobIndicesOf(cs, nj) ==
  IF nj = << >> THEN << >>
  ELSE <<Head(cs) - Head(nj)>> \o JobIndicesOf(Tail(cs), Tail(nj))

JobIndicesNoOffset(nj) == CumSum(nj, 0)

JobIndices(nj) == JobIndicesOf(CumSum(nj, 0), nj)

\* ------------------------------------------------------ the stop criterion
\* Lines 316, 431: abs(avg_next - avg_curr) / avg_curr.
RelChangeNoAbs(next, curr) ==
  Norm((next[1] * curr[2] - curr[1] * next[2]) * curr[2],
       next[2] * curr[2] * curr[1])

RelChange(next, curr) ==
  Norm(Abs(next[1] * curr[2] - curr[1] * next[2]) * curr[2],
       next[2] * curr[2] * curr[1])

\* Lines 308, 426: err_thresh + 1.0.
ThreshPlusOne(t) == Norm(t[1] + t[2], t[2])

\* Lines 323, 438: max_sampling is not None and len(ecf_errs) >= max_sampling.
CapReachedEq(errs, cap) == cap # None /\ Len(errs) = cap[1]

CapReached(errs, cap) == cap # None /\ Len(errs) >= cap[1]

\* ------------------------------------------------------------------- state
NoOps == [created |-> 0, closed |-> 0, unlinked |-> 0]

\* Lines 328, 330: close() on a segment handle.
Closed(ops) == [ops EXCEPT !.closed = @ + 1]

\* Lines 329, 331: unlink() of a segment.
UnlinkedNot(ops) == ops

Unlinked(ops) == [ops EXCEPT !.unlinked = @ + 1]
Workers == 1..MaxWorkers

\* The controller before its first statement.
CtlStart ==
  /\ pc = "start"
  /\ exc = "none"
  /\ shm = [s \in Segs |-> NoOps]
  /\ free_pos = 1
  /\ num_workers = num_workers_arg
  /\ num_jobs = << >>
  /\ job_indices = << >>
  /\ task = [i \in Workers |-> "idle"]
  /\ task_out = [i \in Workers |-> << >>]
  /\ ret = [i \in Workers |-> << >>]
  /\ ecf_errs = << >>
  /\ ecf_err_avg_curr = <<0, 0>>
  /\ iter_cur = 0
  /\ err_curr = <<0, 0>>
  /\ batches = 0

NoWorkerRun ==
  /\ results = << >> /\ arr_shape0 = 0 /\ num_results = 0
  /\ rng = << >> /\ shm_to_arr = << >>
  /\ s_pc = "idle" /\ s_i = 0 /\ s_indices = << >>
  /\ results_copy = << >> /\ out_arr = << >>
  /\ n_pc = "idle" /\ n_indices = << >> /\ result = << >>
  /\ s_ids = << >> /\ s_used = << >> /\ n_used = << >>

\* pval is not being called.
NoPvalCall ==
  /\ err_dist = << >> /\ err_compare = Zero /\ sample_size = 0
  /\ p_pc = "idle" /\ p_ret = <<0, 0>>

\* A trajectory set whose variables all have the same shape.
SameShapes == [v \in InSegs |-> <<2, NumTimes>>]

Init ==
  /\ shared \in BOOLEAN
  /\ incr_sampling \in 1..MaxIncr
  /\ err_thresh \in ThreshSet
  /\ max_sampling \in CapSet
  /\ num_workers_arg \in 1..MaxWorkers
  /\ var_shapes = SameShapes
  /\ CtlStart
  /\ shm_from_arr = << >>
  /\ NoWorkerRun
  /\ NoPvalCall

Live(s) == shm[s].created > 0 /\ shm[s].unlinked = 0
Active == 1..num_workers
AllFinished == \A i \in Active : task[i] \in {"done", "raised"}
AnyRaised == \E i \in Active : task[i] = "raised"

Raise(what) == pc' = "raised" /\ exc' = what

\* Lines 260, 382: sample_size, num_times = _results[var_names[0]].shape.
FirstShape == var_shapes[1]

\* Line 221: np.ndarray((_arr_shape0, _arr_shape1), buffer=v.buf) raises
\* TypeError when the segment, created with v.nbytes (line 249), is too small.
BuffersFit ==
  \A v \in DOMAIN var_shapes :
    var_shapes[v][1] * var_shapes[v][2] >= FirstShape[1] * FirstShape[2]

\* Lines 343, 366: res[indices, :] and _results[:, idx] raise IndexError when
\* a variable has fewer rows or fewer columns than the first one.
IndicesFit ==
  \A v \in DOMAIN var_shapes :
    var_shapes[v][1] >= FirstShape[1] /\ var_shapes[v][2] >= FirstShape[2]

\* ------------------------------------------------- test_sampling_shared
\* Lines 248-257: create and fill the input segments, create the output one.
S_Alloc ==
  /\ shared /\ pc = "start"
  /\ shm' = [s \in Segs |-> [shm[s] EXCEPT !.created = @ + 1]]
  /\ shm_from_arr' = [k \in 1..incr_sampling |-> 0]
  /\ pc' = "sched"
  /\ UNCHANGED <<params, pvars, wvars, exc, free_pos, sched, task, task_out, ret, loopv, batches>>

\* Lines 266-282 (388-403): partition the batch, verify the sum.
Schedule(withIndices) ==
  LET nj == Partition(incr_sampling, num_workers_arg) IN
  /\ num_jobs' = nj
  /\ num_workers' = Len(nj)
  /\ job_indices' = IF withIndices THEN JobIndices(nj) ELSE << >>
  /\ IF SumSeq(nj) # incr_sampling
     THEN Raise("RuntimeError")
     ELSE pc' = "pool" /\ exc' = exc
  /\ UNCHANGED <<params, pvars, wvars, shm, free_pos, task, task_out, shm_from_arr, ret, loopv, batches>>

S_Schedule == shared /\ pc = "sched" /\ Schedule(TRUE)

\* Lines 284-297 (405-415): par.get_pool() or mp.Pool(num_workers), which may fail.
GetPool ==
  /\ pc = "pool"
  /\ \E ok \in BOOLEAN :
       IF ok THEN pc' = "map" /\ exc' = exc ELSE Raise("PoolError")
  /\ UNCHANGED <<params, pvars, wvars, shm, free_pos, sched, task, task_out, shm_from_arr, ret, loopv, batches>>

S_GetPool == shared /\ GetPool

\* pool.starmap(...): hand one task per worker to the pool.
Starmap ==
  /\ task' = [i \in Workers |-> IF i \in Active THEN "run" ELSE "idle"]
  /\ task_out' = [i \in Workers |-> << >>]
  /\ ret' = [i \in Workers |-> << >>]
  /\ batches' = batches + 1

\* Line 299: the initial batch.
S_Starmap0 ==
  /\ shared /\ pc = "map"
  /\ Starmap
  /\ pc' = "wait0"
  /\ UNCHANGED <<params, pvars, wvars, exc, shm, free_pos, sched, shm_from_arr, loopv>>

\* Lines 206-236: one task of the shared transport. It attaches to the segments
\* by name, computes _num_results errors and writes them to its output slice.
S_Worker(i) ==
  /\ shared /\ i \in Active /\ task[i] = "run"
  /\ \/ /\ task' = [task EXCEPT ![i] = "raised"]
        /\ UNCHANGED <<shm_from_arr, task_out>>
     \/ /\ \A s \in Segs : Live(s)
        /\ BuffersFit
        /\ task' = [task EXCEPT ![i] = "done"]
        /\ \E errs \in [1..num_jobs[i] -> ErrVals] :
             /\ task_out' = [task_out EXCEPT ![i] = errs]
             /\ shm_from_arr' =
                  [k \in 1..Len(shm_from_arr) |->
                     IF k - 1 >= job_indices[i] /\ k - 1 < job_indices[i] + num_jobs[i]
                     THEN errs[k - job_indices[i]]
                     ELSE shm_from_arr[k]]
  /\ UNCHANGED <<params, pvars, wvars, pc, exc, shm, free_pos, sched, ret, loopv, batches>>

\* Lines 299-308: the barrier of the first starmap, then the initial average.
S_Collect0 ==
  /\ shared /\ pc = "wait0" /\ AllFinished
  /\ IF AnyRaised
     THEN Raise("WorkerError") /\ UNCHANGED loopv
     ELSE /\ ecf_errs' = ecf_errs \o shm_from_arr
          /\ ecf_err_avg_curr' = Average(ecf_errs')
          /\ iter_cur' = 0
          /\ err_curr' = ThreshPlusOne(err_thresh)
          /\ pc' = "while" /\ exc' = exc
  /\ UNCHANGED <<params, pvars, wvars, shm, free_pos, sched, task, task_out, shm_from_arr, ret, batches>>

\* Lines 309-310: the loop test holds, the next batch is dispatched.
S_LoopDispatch ==
  /\ shared /\ pc = "while" /\ GE(err_curr, err_thresh)
  /\ batches < MaxBatches
  /\ Starmap
  /\ pc' = "wait"
  /\ UNCHANGED <<params, pvars, wvars, exc, shm, free_pos, sched, shm_from_arr, loopv>>

\* Line 309: the loop test fails.
S_LoopExit ==
  /\ shared /\ pc = "while" /\ ~GE(err_curr, err_thresh)
  /\ pc' = "free"
  /\ UNCHANGED <<params, pvars, wvars, exc, shm, free_pos, sched, task, task_out, shm_from_arr, ret, loopv, batches>>

\* Lines 315-324 (430-439): the loop body after the batch was appended.
LoopBody(errs, after) ==
  LET avg_next == Average(errs) IN
  /\ ecf_errs' = errs
  /\ err_curr' = RelChange(avg_next, ecf_err_avg_curr)
  /\ ecf_err_avg_curr' = avg_next
  /\ IF avg_next[1] = 0
     THEN iter_cur' = iter_cur /\ pc' = after
     ELSE /\ iter_cur' = iter_cur + 1
          /\ pc' = IF CapReached(errs, max_sampling) THEN after ELSE "while"

\* Lines 310-324: the barrier of a loop batch, then the loop body.
S_Collect ==
  /\ shared /\ pc = "wait" /\ AllFinished
  /\ IF AnyRaised
     THEN Raise("WorkerError") /\ UNCHANGED loopv
     ELSE LoopBody(ecf_errs \o shm_from_arr, "free") /\ exc' = exc
  /\ UNCHANGED <<params, pvars, wvars, shm, free_pos, sched, task, task_out, shm_from_arr, ret, batches>>

\* Lines 327-331: the release sequence closes and unlinks the input segments in
\* order, then the output segment. Positions 2s-1 and 2s are close and unlink of
\* segment s.
FreeSeg == (free_pos + 1) \div 2

\* m.close(), which may fail.
S_Close ==
  /\ shared /\ pc = "free" /\ free_pos % 2 = 1
  /\ \E ok \in BOOLEAN :
       IF ok
       THEN /\ shm' = [shm EXCEPT ![FreeSeg] = Closed(@)]
            /\ free_pos' = free_pos + 1
            /\ pc' = pc /\ exc' = exc
       ELSE Raise("ReleaseError") /\ UNCHANGED <<shm, free_pos>>
  /\ UNCHANGED <<params, pvars, wvars, sched, task, task_out, shm_from_arr, ret, loopv, batches>>

\* m.unlink(), which may fail; after the last one, line 334 returns.
S_Unlink ==
  /\ shared /\ pc = "free" /\ free_pos % 2 = 0
  /\ \E ok \in BOOLEAN :
       IF ok
       THEN /\ shm' = [shm EXCEPT ![FreeSeg] = Unlinked(@)]
            /\ free_pos' = free_pos + 1
            /\ pc' = IF FreeSeg = OutSeg THEN "returned" ELSE pc
            /\ exc' = exc
       ELSE Raise("ReleaseError") /\ UNCHANGED <<shm, free_pos>>
  /\ UNCHANGED <<params, pvars, wvars, sched, task, task_out, shm_from_arr, ret, loopv, batches>>

\* ---------------------------------------------- test_sampling_no_shared
N_Schedule == ~shared /\ pc = "start" /\ Schedule(FALSE)

N_GetPool == ~shared /\ GetPool

\* Line 417: the initial batch.
N_Starmap0 ==
  /\ ~shared /\ pc = "map"
  /\ Starmap
  /\ pc' = "wait0"
  /\ UNCHANGED <<params, pvars, wvars, exc, shm, free_pos, sched, shm_from_arr, loopv>>

\* Lines 351-369: one task of the copy transport returns its list of errors.
N_Worker(i) ==
  /\ ~shared /\ i \in Active /\ task[i] = "run"
  /\ \/ /\ task' = [task EXCEPT ![i] = "raised"]
        /\ UNCHANGED ret
     \/ /\ IndicesFit
        /\ task' = [task EXCEPT ![i] = "done"]
        /\ \E errs \in [1..num_jobs[i] -> ErrVals] :
             ret' = [ret EXCEPT ![i] = errs]
  /\ UNCHANGED <<params, pvars, wvars, pc, exc, shm, free_pos, sched, task_out, shm_from_arr, loopv, batches>>

StarmapResultReversed == Flatten([i \in 1..num_workers |-> ret[num_workers + 1 - i]])

\* starmap's result: the tasks' lists in the order of input_args.
StarmapResult == Flatten([i \in 1..num_workers |-> ret[i]])

\* Lines 417-426: the barrier of the first starmap, then the initial average.
N_Collect0 ==
  /\ ~shared /\ pc = "wait0" /\ AllFinished
  /\ IF AnyRaised
     THEN Raise("WorkerError") /\ UNCHANGED loopv
     ELSE /\ ecf_errs' = ecf_errs \o StarmapResult
          /\ ecf_err_avg_curr' = Average(ecf_errs')
          /\ iter_cur' = 0
          /\ err_curr' = IF ecf_err_avg_curr'[1] = 0
                         THEN Zero
                         ELSE ThreshPlusOne(err_thresh)
          /\ pc' = "while" /\ exc' = exc
  /\ UNCHANGED <<params, pvars, wvars, shm, free_pos, sched, task, task_out, shm_from_arr, ret, batches>>

\* Lines 427-428: the loop test holds, the next batch is dispatched.
N_LoopDispatch ==
  /\ ~shared /\ pc = "while" /\ GE(err_curr, err_thresh)
  /\ batches < MaxBatches
  /\ Starmap
  /\ pc' = "wait"
  /\ UNCHANGED <<params, pvars, wvars, exc, shm, free_pos, sched, shm_from_arr, loopv>>

\* Lines 427, 441: the loop test fails, the function returns.
N_LoopExit ==
  /\ ~shared /\ pc = "while" /\ ~GE(err_curr, err_thresh)
  /\ pc' = "returned"
  /\ UNCHANGED <<params, pvars, wvars, exc, shm, free_pos, sched, task, task_out, shm_from_arr, ret, loopv, batches>>

\* Lines 428-441: the barrier of a loop batch, then the loop body.
N_Collect ==
  /\ ~shared /\ pc = "wait" /\ AllFinished
  /\ IF AnyRaised
     THEN Raise("WorkerError") /\ UNCHANGED loopv
     ELSE LoopBody(ecf_errs \o StarmapResult, "returned") /\ exc' = exc
  /\ UNCHANGED <<params, pvars, wvars, shm, free_pos, sched, task, task_out, shm_from_arr, ret, batches>>

\* ------------------------------------------------------------ specification
Next ==
  \/ S_Alloc \/ S_Schedule \/ S_GetPool \/ S_Starmap0
  \/ (\E i \in Workers : S_Worker(i))
  \/ S_Collect0 \/ S_LoopDispatch \/ S_LoopExit \/ S_Collect
  \/ S_Close \/ S_Unlink
  \/ N_Schedule \/ N_GetPool \/ N_Starmap0
  \/ (\E i \in Workers : N_Worker(i))
  \/ N_Collect0 \/ N_LoopDispatch \/ N_LoopExit \/ N_Collect

Spec == Init /\ [][Next]_vars

\* --------------------------------------------------------- the error metric
\* The ECF is a floating-point average of cos and sin over the members of a
\* sample. The model keeps that structure with one frequency and the identity
\* in place of cos and sin: a sample enters only through an average over its
\* members, and ecf_compare is the distance of the two averages.
Ecf(var_vals) == Norm(SumSeq(var_vals), Len(var_vals))

\* Line 45: the distance of two ECF evaluations.
ecf_compare(e1, e2) == Norm(Abs(e1[1] * e2[2] - e2[1] * e1[2]), e1[2] * e2[2])

\* Line 96: np.std(results) == 0.0.
StdIsZero(col) == \A r \in 1..Len(col) : col[r] = col[1]

\* Lines 104-106: results[:n] and results[n:] with n = int(shape / 2).
FirstHalf(col) == SubSeq(col, 1, Len(col) \div 2)
SecondHalf(col) == SubSeq(col, Len(col) \div 2 + 1, Len(col))

\* Lines 95-109: the error of one variable at one time.
ecf_err(col) ==
  IF StdIsZero(col) THEN Zero
  ELSE ecf_compare(Ecf(FirstHalf(col)), Ecf(SecondHalf(col)))

\* max(a, b) on floats.
FMax(a, b) == IF GE(b, a) /\ b # a THEN b ELSE a

\* res[:, idx]
Column(res, idx) == [r \in 1..Len(res) |-> res[r][idx]]

\* Lines 196-199 (341-344): the maximum over the time steps.
RECURSIVE MaxOverTimes(_, _, _)
MaxOverTimes(res, idx, err_iter) ==
  IF idx > NumTimes THEN err_iter
  ELSE MaxOverTimes(res, idx + 1, FMax(err_iter, ecf_err(Column(res, idx))))

test_sampling_impl(res) == MaxOverTimes(res, 1, Zero)

\* Lines 230-232 (366-367): the maximum over the variables.
RECURSIVE MaxOverVars(_, _)
MaxOverVars(arrs, max_val) ==
  IF arrs = << >> THEN max_val
  ELSE MaxOverVars(Tail(arrs), FMax(max_val, test_sampling_impl(Head(arrs))))

\* res[indices]: the rows of res in the order indices gives.
Take(res, indices) == [k \in 1..Len(indices) |-> res[indices[k]]]

\* A draw with replacement in place of the shuffle.
ShuffleRepeats(indices, p) == [k \in 1..Len(indices) |-> indices[p[1]]]

\* np.random.shuffle(indices) when the generator draws the permutation p.
Shuffle(indices, p) == [k \in 1..Len(indices) |-> indices[p[k]]]

Perms(n) == {p \in [1..n -> 1..n] : \A i, j \in 1..n : p[i] = p[j] => i = j}
Identity(n) == [k \in 1..n |-> k]

\* ----------------------------------------------------- trajectory sets
Kinds == {"flat", "ramp", "step"}
Value(kind, r, t) ==
  CASE kind = "flat" -> 0
    [] kind = "ramp" -> r + t
    [] kind = "step" -> IF r <= t THEN 1 ELSE 0

Trajectory(kind, S) == [r \in 1..S |-> [t \in 1..NumTimes |-> Value(kind, r, t)]]
KindLists == {<<"ramp">>, <<"ramp", "step">>, <<"flat", "ramp">>, <<"step", "flat">>}

\* ------------------------------------------------------------ worker tasks
WorkerInit ==
  /\ shared = TRUE /\ err_thresh = <<1, 2>> /\ max_sampling = None
  /\ num_workers_arg = 1
  /\ CtlStart
  /\ arr_shape0 \in 2..MaxReal
  /\ num_results \in 1..MaxRep
  /\ incr_sampling = num_results
  /\ \E kinds \in KindLists :
       results = [v \in 1..Len(kinds) |-> Trajectory(kinds[v], arr_shape0)]
  /\ var_shapes = [v \in 1..Len(results) |-> <<arr_shape0, NumTimes>>]
  /\ shm_to_arr = << >>
  /\ shm_from_arr = [k \in 1..num_results |-> 0]
  /\ rng = << >>
  /\ s_pc = "idle" /\ s_i = 0 /\ s_indices = << >>
  /\ results_copy = << >> /\ out_arr = << >>
  /\ n_pc = "begin" /\ n_indices = << >> /\ result = << >>
  /\ s_ids = << >> /\ s_used = << >> /\ n_used = << >>
  /\ NoPvalCall

\* Lines 249-252, 299: the controller copies every variable into its input
\* segment, then hands the task to the pool.
WS_Fill ==
  /\ s_pc = "idle"
  /\ shm_to_arr' = results
  /\ s_pc' = "begin"
  /\ UNCHANGED <<params, pvars, ctl, shm_from_arr, ret, winput, rng,
                 s_i, s_indices, results_copy, out_arr, s_ids, s_used, nworker>>

\* Lines 224, 229: np.array(v) copies the segment's array and res[indices]
\* builds a new array, so a replicate leaves the segments' contents alone.
InputsShuffledInPlace(segs, indices) ==
  [v \in 1..Len(segs) |-> Take(segs[v], indices)]

InputsAfterReplicate(segs, indices) == segs

\* Lines 216-225: attach to the segments, copy the inputs, start the indices.
WS_Begin ==
  /\ s_pc = "begin"
  /\ results_copy' = shm_to_arr
  /\ out_arr' = [k \in 1..num_results |-> Zero]
  /\ s_indices' = Identity(arr_shape0)
  /\ s_ids' = Identity(arr_shape0)
  /\ s_i' = 0
  /\ s_pc' = "loop"
  /\ UNCHANGED <<params, pvars, ctl, shm_from_arr, ret, winput, rng, shm_to_arr, s_used, nworker>>

\* Lines 227-233: one replicate of the shared transport.
WS_Replicate ==
  /\ s_pc = "loop" /\ s_i < num_results
  /\ \E p \in Perms(arr_shape0) :
       /\ rng' = Append(rng, p)
       /\ LET indices == Shuffle(s_indices, p)
              copy == [v \in 1..Len(results_copy) |-> Take(results_copy[v], indices)]
          IN /\ s_indices' = indices
             /\ results_copy' = copy
             /\ shm_to_arr' = InputsAfterReplicate(shm_to_arr, indices)
             /\ out_arr' = [out_arr EXCEPT ![s_i + 1] = MaxOverVars(copy, Zero)]
             /\ s_ids' = Take(s_ids, indices)
             /\ s_used' = Append(s_used, s_ids')
  /\ s_i' = s_i + 1
  /\ UNCHANGED <<params, pvars, ctl, shm_from_arr, ret, winput, s_pc, nworker>>

\* Lines 235-236: write the results to the output slice.
WS_Write ==
  /\ s_pc = "loop" /\ s_i = num_results
  /\ shm_from_arr' = out_arr
  /\ s_pc' = "done"
  /\ UNCHANGED <<params, pvars, ctl, ret, winput, rng, shm_to_arr,
                 s_i, s_indices, results_copy, out_arr, s_ids, s_used, nworker>>

\* Lines 358-361: start the indices and the result list. The copy task is run
\* after the shared one, from the same seed: it replays the stream rng.
WN_Begin ==
  /\ n_pc = "begin" /\ s_pc = "done"
  /\ n_indices' = Identity(arr_shape0)
  /\ result' = << >>
  /\ n_pc' = "loop"
  /\ UNCHANGED <<params, pvars, ctl, shm_from_arr, ret, winput, rng, shm_to_arr, sworker, n_used>>

\* Lines 363-367: one replicate of the copy transport.
WN_Replicate ==
  /\ n_pc = "loop" /\ Len(result) < num_results
  /\ LET indices == Shuffle(n_indices, rng[Len(result) + 1])
         arranged == [v \in 1..Len(results) |-> Take(results[v], indices)]
     IN /\ n_indices' = indices
        /\ result' = Append(result, MaxOverVars(arranged, Zero))
        /\ n_used' = Append(n_used, indices)
  /\ UNCHANGED <<params, pvars, ctl, shm_from_arr, ret, winput, rng, shm_to_arr, sworker, n_pc>>

\* Line 369: return the list.
WN_Return ==
  /\ n_pc = "loop" /\ Len(result) = num_results
  /\ ret' = [ret EXCEPT ![1] = result]
  /\ n_pc' = "done"
  /\ UNCHANGED <<params, pvars, ctl, shm_from_arr, winput, rng, shm_to_arr, sworker,
                 n_indices, result, n_used>>

WorkerNext ==
  \/ WS_Fill \/ WS_Begin \/ WS_Replicate \/ WS_Write
  \/ WN_Begin \/ WN_Replicate \/ WN_Return

WorkerSpec == WorkerInit /\ [][WorkerNext]_vars

\* -------------------------------------------------------------------- pval
\* float64 arithmetic on fractions. A division by zero yields inf or nan with
\* a warning, never an exception; nan propagates. No negative infinity arises
\* in pval: every divisor is a variance, a square or a positive count.
One == <<1, 1>>
IsInf(x) == x = <<1, 0>>

FAdd(x, y) ==
  IF IsNan(x) \/ IsNan(y) THEN <<0, 0>>
  ELSE IF IsInf(x) \/ IsInf(y) THEN <<1, 0>>
  ELSE Norm(x[1] * y[2] + y[1] * x[2], x[2] * y[2])

FSub(x, y) ==
  IF IsNan(x) \/ IsNan(y) THEN <<0, 0>>
  ELSE Norm(x[1] * y[2] - y[1] * x[2], x[2] * y[2])

FMul(x, y) == Norm(x[1] * y[1], x[2] * y[2])

FDiv(x, y) == Norm(x[1] * y[2], x[2] * y[1])

\* np.floor
FFloor(x) == IF x[2] = 0 THEN x ELSE <<x[1] \div x[2], 1>>

\* Python's min(1.0, pr): pr only if pr < 1.0, so 1.0 when pr is nan.
PyMin(a, b) == IF LT(b, a) THEN b ELSE a

SumSq(s) == SumSeq([k \in 1..Len(s) |-> s[k] * s[k]])

\* np.var(err_dist): the mean of the squared deviations from the mean.
VarBiased(s) ==
  Norm(Len(s) * SumSq(s) - SumSeq(s) * SumSeq(s), Len(s) * Len(s))

\* Line 489: np.var(err_dist, ddof=1); nan for fewer than 2 entries.
Var(s) ==
  Norm(Len(s) * SumSq(s) - SumSeq(s) * SumSeq(s), Len(s) * (Len(s) - 1))

\* Lines 489-492, for sample_size # 0.
PvalTail(dist, cmp, size) ==
  LET err_avg == Average(dist)
      ratio == Norm(size + 1, size)
      q2 == FMul(ratio, Var(dist))
      diff == FSub(cmp, err_avg)
      lam2 == FDiv(FMul(diff, diff), q2)
      pr == FDiv(FFloor(FMul(ratio, FAdd(FDiv(<<size - 1, 1>>, lam2), One))),
                 <<size + 1, 1>>)
  IN PyMin(One, pr)

\* Inputs of a call.
DistVals == {0, 1, 2}
CompareSet == {<<0, 1>>, <<1, 2>>, <<1, 1>>, <<3, 2>>, <<2, 1>>, <<3, 1>>}
DistSet == UNION {[1..n -> DistVals] : n \in 0..MaxDist}

PvalInit ==
  /\ shared = FALSE /\ incr_sampling = 1 /\ err_thresh = <<1, 2>>
  /\ max_sampling = None /\ num_workers_arg = 1
  /\ var_shapes = SameShapes
  /\ CtlStart
  /\ shm_from_arr = << >>
  /\ NoWorkerRun
  /\ err_dist \in DistSet
  /\ err_compare \in CompareSet
  /\ sample_size \in 0..MaxSampleSize
  /\ p_pc = "call" /\ p_ret = <<0, 0>>

\* Lines 486-492: one call of pval. The integer division of line 489 raises
\* ZeroDivisionError for sample_size = 0.
Pval ==
  /\ p_pc = "call"
  /\ IF LT(err_compare, Average(err_dist))
     THEN p_pc' = "returned" /\ p_ret' = One
     ELSE IF sample_size = 0
     THEN p_pc' = "raised" /\ p_ret' = p_ret
     ELSE /\ p_pc' = "returned"
          /\ p_ret' = PvalTail(err_dist, err_compare, sample_size)
  /\ UNCHANGED <<params, ctl, shm_from_arr, ret, wvars,
                 err_dist, err_compare, sample_size>>

PvalNext == Pval

PvalSpec == PvalInit /\ [][PvalNext]_vars

\* ------------------------------------------------- mismatched trajectory sets
\* test_reproducibility called with trajectory sets whose variables may differ
\* in their numbers of realizations and of time steps.
ShapeVals == {<<2, 1>>, <<3, 1>>, <<2, 2>>}

ShapeInit ==
  /\ shared \in BOOLEAN
  /\ incr_sampling \in 1..MaxIncr
  /\ err_thresh = <<1, 2>>
  /\ max_sampling \in {None, <<1>>}
  /\ num_workers_arg \in 1..MaxWorkers
  /\ var_shapes \in [InSegs -> ShapeVals]
  /\ CtlStart
  /\ shm_from_arr = << >>
  /\ NoWorkerRun
  /\ NoPvalCall

ShapeSpec == ShapeInit /\ [][Next]_vars

\* ------------------------------------------------------------------ claims
Ceil(a, b) == (a + b - 1) \div b
Scheduled == pc \notin {"start", "sched"}
Returned == pc = "returned"
AllSegs(P(_)) == \A s \in Segs : P(shm[s])

\* C1: once the partition is computed, the per-worker job counts sum to
\* incr_sampling, none is zero, any two differ by at most 1, none exceeds
\* ceil(incr_sampling / num_workers), and the sum-mismatch RuntimeError is
\* never raised.
C1_PartitionBalanced ==
  /\ exc # "RuntimeError"
  /\ Scheduled =>
       /\ SumSeq(num_jobs) = incr_sampling
       /\ \A i \in 1..Len(num_jobs) : num_jobs[i] > 0
       /\ \A i, j \in 1..Len(num_jobs) : Abs(num_jobs[i] - num_jobs[j]) <= 1
       /\ \A i \in 1..Len(num_jobs) :
            num_jobs[i] <= Ceil(incr_sampling, num_workers_arg)

C1_Witness ==
  pc = "pool" /\ num_workers_arg = 2 /\ num_jobs = <<2, 1>>

\* C2: run on the same data with the same random stream, the two transports
\* evaluate every replicate on the same two halves of the realizations and
\* produce the same error sample.
Halves(arr) ==
  {{arr[k] : k \in 1..(Len(arr) \div 2)},
   {arr[k] : k \in (Len(arr) \div 2 + 1)..Len(arr)}}

C2_TransportsAgree ==
  /\ \A k \in 1..Min(Len(s_used), Len(n_used)) :
       /\ Halves(s_used[k]) = Halves(n_used[k])
       /\ out_arr[k] = result[k]
  /\ (s_pc = "done" /\ n_pc = "done") => shm_from_arr = ret[1]

\* C3: when max_sampling is set, the returned error sample has at most
\* max_sampling entries.
C3_SampleWithinCap ==
  (Returned /\ max_sampling # None) => Len(ecf_errs) <= max_sampling[1]

\* C4: with max_sampling set the controller never raises on its own account
\* and every run ends. Termination is stated by a variant: while the call has
\* neither returned nor raised a step is possible (at a barrier: a task is in
\* flight, or all have finished and the controller resumes), no batch is
\* dispatched beyond max(2, ceil(max_sampling / incr_sampling)), and every
\* step strictly decreases the natural number Rank.
Running == pc \notin {"returned", "raised"}
AtBarrier == pc \in {"wait0", "wait"}
CapBatches == IF Ceil(max_sampling[1], incr_sampling) < 2
              THEN 2 ELSE Ceil(max_sampling[1], incr_sampling)
FreeSteps == 2 * (NumVars + 1)
InFlight == Cardinality({i \in Active : task[i] = "run"})
LoopRank == FreeSteps + 1 + (CapBatches - batches) * (MaxWorkers + 2)
Rank ==
  CASE pc = "free" -> FreeSteps + 1 - free_pos
    [] pc = "while" -> LoopRank
    [] pc \in {"wait", "wait0"} -> LoopRank + 1 + InFlight
    [] pc = "map" -> LoopRank + 1
    [] pc = "pool" -> LoopRank + 2
    [] pc = "sched" -> LoopRank + 3
    [] pc = "start" -> LoopRank + 4
    [] OTHER -> 0

C4_TerminatesUnderCap ==
  /\ [](max_sampling # None =>
         /\ exc # "RuntimeError"
         /\ (Running /\ ~AtBarrier) => ENABLED Next
         /\ AtBarrier => (InFlight > 0 \/ AllFinished)
         /\ (pc = "while" /\ GE(err_curr, err_thresh)) => batches < CapBatches
         /\ Rank >= 0)
  /\ [][max_sampling # None => Rank' < Rank]_vars

C4_Witness ==
  /\ Returned /\ max_sampling # None
  /\ ~LT(err_curr, err_thresh)
  /\ Len(ecf_errs) >= max_sampling[1]

\* C5: on every return the iteration count is the number of batches dispatched
\* after the first: len(ecf_errs) = incr_sampling * (iter_cur + 1).
C5_IterationsCountBatches ==
  Returned =>
    /\ iter_cur = batches - 1
    /\ Len(ecf_errs) = incr_sampling * (iter_cur + 1)

\* C6: a return with a zero running average carries the relative error 0.0,
\* never the result of a division by the zero average.
C6_ZeroAverageReturnsZero ==
  (Returned /\ SumSeq(ecf_errs) = 0) => err_curr = Zero

\* C7: with every replicate returning the same c > 0, the controller stops
\* after exactly one batch beyond the initial one, and the relative change of
\* that batch is exactly 0.
ConstantSample ==
  /\ ecf_errs # << >>
  /\ ecf_errs[1] > 0
  /\ \A k \in 1..Len(ecf_errs) : ecf_errs[k] = ecf_errs[1]

C8_SegmentLifecycle ==
  shared =>
    /\ AllSegs(LAMBDA o : o.created <= 1 /\ o.closed <= 1 /\ o.unlinked <= 1)
    /\ batches > 0 => AllSegs(LAMBDA o : o.created = 1)
    /\ (\E s \in Segs : shm[s].closed > 0 \/ shm[s].unlinked > 0) =>
         /\ pc \in {"free", "returned", "raised"}
         /\ \A i \in Workers : task[i] # "run"
         /\ Len(ecf_errs) = batches * incr_sampling
    /\ Returned =>
         AllSegs(LAMBDA o : o.created = 1 /\ o.closed = 1 /\ o.unlinked = 1)

C8_Witness ==
  /\ shared /\ Returned /\ batches >= 2
  /\ AllSegs(LAMBDA o : o.unlinked = 1)

\* C9: when test_sampling_shared leaves through an error raised after the
\* segments were created, every created segment has been released.
C9_ReleasedOnError ==
  (shared /\ pc = "raised" /\ exc \in {"RuntimeError", "PoolError", "WorkerError"}) =>
    AllSegs(LAMBDA o : o.created > 0 => o.unlinked > 0)

\* C10: a failing release is not propagated: the result is still returned and
\* the remaining segments are still released.
C10_ReleaseFailureNotRaised ==
  exc # "ReleaseError"

\* C11: in the shared transport worker i writes exactly the output slots
\* job_indices[i] .. job_indices[i] + num_jobs[i] - 1. These ranges lie inside
\* the output segment of length incr_sampling, are pairwise disjoint and cover
\* every slot; a step changes a slot only if it is the write of the worker
\* owning that slot; under every interleaving a finished worker's slice holds
\* what that worker computed, and at the barrier every slot holds a value of
\* the current batch.
Slice(i) ==
  {k \in 1..incr_sampling :
     k - 1 >= job_indices[i] /\ k - 1 < job_indices[i] + num_jobs[i]}

SlicesPartition ==
  /\ Len(shm_from_arr) = incr_sampling
  /\ Len(job_indices) = num_workers /\ Len(num_jobs) = num_workers
  /\ \A i \in Active :
       /\ job_indices[i] >= 0
       /\ job_indices[i] + num_jobs[i] <= incr_sampling
       /\ Cardinality(Slice(i)) = num_jobs[i]
  /\ \A i, j \in Active : i # j => Slice(i) \cap Slice(j) = {}
  /\ UNION {Slice(i) : i \in Active} = 1..incr_sampling

SliceHoldsOwnResult(i) ==
  \A k \in Slice(i) : shm_from_arr[k] = task_out[i][k - job_indices[i]]

BatchComplete == AtBarrier /\ AllFinished /\ ~AnyRaised

C11_DisjointOutputSlices ==
  /\ []((shared /\ Scheduled) =>
          /\ SlicesPartition
          /\ \A i \in Active : task[i] = "done" => SliceHoldsOwnResult(i)
          /\ BatchComplete =>
               shm_from_arr = Flatten([i \in 1..num_workers |-> task_out[i]]))
  /\ [][(shared /\ Scheduled) =>
          \A k \in 1..incr_sampling :
            shm_from_arr'[k] # shm_from_arr[k] =>
              \E i \in Active :
                /\ task[i] = "run" /\ task'[i] = "done"
                /\ k \in Slice(i)
                /\ \A j \in Active \ {i} : task'[j] = task[j]]_vars

C11_Witness ==
  /\ shared /\ pc = "wait" /\ BatchComplete
  /\ num_workers = 2 /\ batches = 2
  /\ ecf_errs = <<0, 1, 1>> /\ shm_from_arr = <<1, 0, 0>>


\* C12: pval called with an error distribution of fewer than 2 entries fails
\* with an error; it never returns a value.
C12_PvalRejectsSmall ==
  Len(err_dist) < 2 => p_pc # "returned"


\* C13: for a distribution whose entries are all equal (variance 0), a call
\* with err_compare strictly above the mean fails with an error instead of
\* dividing by zero and returning a number; with err_compare at or below the
\* mean it returns 1.0.
ValidSizes == Len(err_dist) >= 2 /\ sample_size >= 2
ZeroVariance == \A k \in 1..Len(err_dist) : err_dist[k] = err_dist[1]

C13_PvalZeroVariance ==
  (ValidSizes /\ ZeroVariance /\ p_pc # "call") =>
    IF LT(Average(err_dist), err_compare)
    THEN p_pc = "raised"
    ELSE p_pc = "returned" /\ p_ret = One

\* C14: for a distribution of at least 2 entries with non-zero variance and
\* sample_size n >= 2, pval returns a value in [0, 1]: exactly 1.0 when
\* err_compare is strictly below the mean, and otherwise
\* min(1, floor((n+1)/n * ((n-1)/lam2 + 1)) / (n+1)), which is 1 at lam2 = 0.
\* The expected value is computed in integers: with variance vn/vd and
\* err_compare - mean = dn/dd, the argument of floor is
\* (n+1) * ((n-1)(n+1) vn dd^2 + n vd dn^2) / (n * n vd dn^2).
ExpectedTail(dist, cmp, n) ==
  LET m == Len(dist)
      vn == m * SumSq(dist) - SumSeq(dist) * SumSeq(dist)
      vd == m * (m - 1)
      dn == cmp[1] * m - SumSeq(dist) * cmp[2]
      dd == cmp[2] * m
      A == (n - 1) * (n + 1) * vn * dd * dd + n * vd * dn * dn
      B == n * vd * dn * dn
      fl == ((n + 1) * A) \div (n * B)
  IN IF dn = 0 \/ fl >= n + 1 THEN One ELSE Norm(fl, n + 1)

C14_PvalRange ==
  (ValidSizes /\ ~ZeroVariance /\ p_pc # "call") =>
    /\ p_pc = "returned"
    /\ p_ret[2] > 0 /\ GE(p_ret, Zero) /\ GE(One, p_ret)
    /\ LT(err_compare, Average(err_dist)) => p_ret = One
    /\ ~LT(err_compare, Average(err_dist)) =>
         p_ret = ExpectedTail(err_dist, err_compare, sample_size)

C14_Witness ==
  /\ p_pc = "returned" /\ ValidSizes /\ ~ZeroVariance
  /\ err_dist = <<1, 1, 2>> /\ err_compare = <<3, 1>> /\ sample_size = 3
  /\ p_ret = <<1, 4>>


\* C15: when the variables of the trajectory set do not all have the same
\* shape, the call fails before any job is dispatched and never returns a
\* result.
Mismatched == \E v, w \in DOMAIN var_shapes : var_shapes[v] # var_shapes[w]

C15_MismatchRejected ==
  Mismatched => (batches = 0 /\ ~Returned)


\* C16: for a non-degenerate sample of n >= 2 realizations the two compared
\* sub-samples are the first floor(n/2) members and the next floor(n/2)
\* members; for odd n the last realization is in neither. Stated on every
\* sample the latest replicate of the shared task evaluated, and on the error
\* that replicate produced.
EvenHalf(col) == Len(col) \div 2

EvenSplitErr(col) ==
  IF StdIsZero(col) THEN Zero
  ELSE ecf_compare(Ecf(SubSeq(col, 1, EvenHalf(col))),
                   Ecf(SubSeq(col, EvenHalf(col) + 1, 2 * EvenHalf(col))))

RECURSIVE MaxEvenSplit(_, _, _)
MaxEvenSplit(arrs, v, t) ==
  IF v > Len(arrs) THEN Zero
  ELSE IF t > NumTimes THEN MaxEvenSplit(arrs, v + 1, 1)
  ELSE FMax(EvenSplitErr(Column(arrs[v], t)), MaxEvenSplit(arrs, v, t + 1))

C16_HalvesOfEqualSize ==
  s_i > 0 =>
    /\ \A v \in 1..Len(results_copy) : \A t \in 1..NumTimes :
         LET col == Column(results_copy[v], t) IN
         ~StdIsZero(col) =>
           /\ Len(FirstHalf(col)) = EvenHalf(col)
           /\ Len(SecondHalf(col)) = EvenHalf(col)
           /\ FirstHalf(col) \o SecondHalf(col) = SubSeq(col, 1, 2 * EvenHalf(col))
    /\ out_arr[s_i] = MaxEvenSplit(results_copy, 1, 1)


\* C17: after a batch beyond the initial one the controller leaves only when a
\* stop condition holds for that batch - the relative change of the running
\* average is below err_thresh, or max_sampling is set and reached, or the
\* running average is zero - and it dispatches no further batch once one
\* holds; a result with a relative error >= err_thresh was stopped by the cap.
\* The relative change is recomputed from the sample: with sums Sa, Sb and
\* lengths La, Lb of the sample with and without its last batch it is
\* |Sa Lb - Sb La| / (La Sb).
Left == (shared /\ pc = "free") \/ Returned

ChangeBelowThresh ==
  LET La == Len(ecf_errs)
      Lb == La - incr_sampling
      Sa == SumSeq(ecf_errs)
      Sb == SumSeq(SubSeq(ecf_errs, 1, Lb))
  IN /\ Lb > 0 /\ Sb > 0
     /\ Abs(Sa * Lb - Sb * La) * err_thresh[2] < err_thresh[1] * La * Sb

StopCond ==
  \/ ChangeBelowThresh
  \/ CapReached(ecf_errs, max_sampling)
  \/ SumSeq(ecf_errs) = 0

C17_StopRule ==
  /\ [](Left =>
          /\ StopCond
          /\ GE(err_curr, err_thresh) => CapReached(ecf_errs, max_sampling))
  /\ [][(batches >= 2 /\ batches' = batches + 1) => ~StopCond]_vars

C17_Witness ==
  /\ Returned /\ max_sampling = None /\ batches = 3
  /\ ecf_errs = <<1, 0, 1>> /\ LT(err_curr, err_thresh)


\* C18: the error sample only grows, by whole batches: a step that changes it
\* is taken at the barrier with every task of the batch finished, appends that
\* batch's results ordered by worker index and, within a worker, by replicate,
\* and leaves the earlier entries as they were; a batch is dispatched only
\* when every earlier batch has been appended.
BatchResults ==
  Flatten([i \in 1..num_workers |-> IF shared THEN task_out[i] ELSE ret[i]])

C18_AppendOnlyOrdered ==
  /\ [](Len(ecf_errs) \in {batches * incr_sampling, (batches - 1) * incr_sampling})
  /\ [][ecf_errs' # ecf_errs =>
          /\ AtBarrier /\ AllFinished /\ ~AnyRaised
          /\ Len(ecf_errs) = (batches - 1) * incr_sampling
          /\ ecf_errs' = ecf_errs \o BatchResults
          /\ Len(BatchResults) = incr_sampling
          /\ batches' = batches]_vars
  /\ [][batches' # batches =>
          /\ batches' = batches + 1
          /\ Len(ecf_errs) = batches * incr_sampling
          /\ ecf_errs' = ecf_errs]_vars

C18_Witness ==
  /\ ~shared /\ Returned /\ batches = 2
  /\ ret = <<<<1, 0>>, <<0>>>>
  /\ ecf_errs = <<0, 1, 1, 1, 0, 0>>


\* C19: in every replicate of either task the arrangement of the realizations
\* is a permutation of the original realizations and is the same for every
\* variable: row k of every variable's arranged data is the same original
\* realization, after any number of replicates, and each replicate's error is
\* the error of the data arranged by that one permutation.
IsArrangement(ids) ==
  Len(ids) = arr_shape0 /\ {ids[k] : k \in 1..Len(ids)} = 1..arr_shape0

ArrangedBy(ids) == [v \in 1..Len(results) |-> Take(results[v], ids)]

C19_RealizationsAligned ==
  /\ s_pc \in {"loop", "done"} =>
       /\ IsArrangement(s_ids)
       /\ results_copy = ArrangedBy(s_ids)
  /\ \A k \in 1..Len(s_used) :
       /\ IsArrangement(s_used[k])
       /\ out_arr[k] = MaxOverVars(ArrangedBy(s_used[k]), Zero)
  /\ \A k \in 1..Len(n_used) :
       /\ IsArrangement(n_used[k])
       /\ result[k] = MaxOverVars(ArrangedBy(n_used[k]), Zero)

C19_Witness ==
  /\ s_pc = "done" /\ n_pc = "done"
  /\ Len(results) = 2 /\ arr_shape0 = 3 /\ num_results = 2
  /\ s_used[2] # n_used[2]
  /\ s_used[2] # Identity(arr_shape0)


\* C20: the controller writes every variable's input segment once, before the
\* task is dispatched, and from then on no step changes the contents of an
\* input segment: the segments hold the caller's data through every
\* replicate, while the task permutes its private copies.
C20_InputsWriteOnce ==
  /\ [](IF s_pc = "idle" THEN shm_to_arr = << >> ELSE shm_to_arr = results)
  /\ [][s_pc # "idle" => shm_to_arr' = shm_to_arr]_vars
  /\ [][shm_to_arr' # shm_to_arr => (s_pc = "idle" /\ s_pc' = "begin")]_vars

C20_Witness ==
  /\ s_pc = "done" /\ s_i = 2
  /\ shm_to_arr = results
  /\ results_copy # shm_to_arr

====
